---- MODULE Spec2Model ----
(***************************************************************************)
(* Head-tracked stereoscopic media viewer: orientation fusion and          *)
(* recentering, gaze / click hit-testing with dwell activation, the beat   *)
(* synchronised note spawner, the per-eye texture windows and the import   *)
(* of persisted state.                                                     *)
(*                                                                         *)
(* Representation.  Angles are fixed-point numbers in fifths of a degree   *)
(* (Deg(d) is d degrees), so that the drag sensitivity 0.2 deg/px of       *)
(* onPointerMove is exactly one unit per pixel.  Times are milliseconds.   *)
(* dwellProgress holds the numerator of elapsed / DWELL_TIME_MS, i.e. the  *)
(* progress 1.0 of the source is the value DWELL_TIME_MS.                  *)
(***************************************************************************)
EXTENDS Integers, Sequences, FiniteSets, TLC

\* ------------------------------------------------------------------------
\* Program constants
\* ------------------------------------------------------------------------
DWELL_TIME_MS == 1200
CHECK_INTERVAL_MS == 100
DRAG_THRESHOLD_PX == 5
SENSOR_PITCH_LIMIT == 80
TOUCH_PITCH_LIMIT == 85
\* RhythmGameRenderer
SPEED == 25
SPAWN_Z == -1000
DESPAWN_Z == 100
BEAT_THRESHOLD == 240
COOLDOWN_FRAMES == 15
BASS_BINS == 5

Deg(d) == 5 * d

\* null / a value, for the nullable refs and state of the source
Null == <<>>
Some(v) == <<v>>
Val(m) == m[1]

Min(a, b) == IF a < b THEN a ELSE b
Max(a, b) == IF a > b THEN a ELSE b
Abs(a) == IF a < 0 THEN 0 - a ELSE a

\* ------------------------------------------------------------------------
\* Bounds of the model
\* ------------------------------------------------------------------------
\* clock horizon in ms
MaxNow == 2500
\* ms between two runs of the gaze interval callback in the runs followed:
\* setInterval promises CHECK_INTERVAL_MS as the least delay only
TickGap == 400
\* animation frames the spawner runs in one session
MaxFrames == 34
NoteFrames == 60
\* largest |yaw| the touch accumulator may reach, in degrees
MaxTouchYaw == 90
\* number of items the library may hold
MaxItems == 1
\* animation frames the spawner runs in a session that is ended and begun
\* again
LoopFrames == 17

\* ------------------------------------------------------------------------
\* State
\* ------------------------------------------------------------------------
VARIABLES
    view,               \* 'library' | 'player'
    mode,               \* playerConfig.mode
    isGameMode,         \* playerConfig.isGameMode
    controlMode,        \* playerConfig.controlMode
    dragAxis,           \* playerConfig.dragAxis
    showSettingsOverlay,
    isPlaying,
    paused,             \* videoRef.current.paused
    headRotation,       \* [x |-> pitch, y |-> yaw]
    touchRotation,      \* [x |-> pitch, y |-> yaw]
    baseRotation,       \* Null or [alpha, beta, gamma]
    lastRawOrientation, \* Null or [alpha, beta, gamma]
    isCalibrationMode,
    isDragging,
    lastPointer,        \* [x, y]
    isSeeking,
    pointerDownAt,      \* history: Null or where the pointer went down
    hoveredWord,        \* Null or the data-word text
    dwellProgress,
    lastHoverTimeRef,
    isTranslating,
    definition,         \* Null or [word, ok]
    inflight,           \* translateWord calls awaiting their result
    gameStats,          \* [score, combo, maxCombo]
    hitObjects,         \* hitObjectsRef.current
    libraryItems,       \* sequence of [id, isConfigured]
    activeProfile,      \* VRProfile
    gamepadMapping,     \* GamepadMapping
    importAlert,        \* the alert handleImport raised last
    now,                \* Date.now()
    probe,              \* the element document.elementFromPoint finds
    lastOp,             \* the handler that ran last, with what it did
    frameCount,         \* RhythmGameRenderer: frameCount.current
    lastBeatFrame,      \* RhythmGameRenderer: lastBeatFrame.current
    notes,              \* RhythmGameRenderer: notesRef.current, [id, z]
    audioInit,          \* RhythmGameRenderer: how the audio set-up ended
    eyeProps,           \* EyeView: Null or the props [format, type, eye]
    eyeOut,             \* EyeView: Null or [style, texture] it shows
    importDoc,          \* the file handleImport read last
    exportFile,         \* the document handleExport downloaded last
    gazeTimer,          \* the interval of the gaze effect is installed
    orientListener,     \* the deviceorientation listener is installed
    requestRef,         \* RhythmGameRenderer: requestRef.current, 0 unset
    spawnerPending,     \* animation-frame requests of updateGame pending
    frameId,            \* VRVideoRenderer: frameId of its effect
    rendererPending,    \* animation-frame requests of animate pending
    rendererRef,        \* VRVideoRenderer: the set-up whose renderer
                        \* rendererRef.current holds, 0 for null
    live,               \* VRVideoRenderer: the resources not yet released
    ep,                 \* history: the run of gaze ticks on one element
    scored,             \* history: scorings per note id in this session
    sampled,            \* history: a valid sensor sample has arrived in
                        \* this session
    beat                \* history: the bass signal the spawner has seen

appVars == <<view, mode, isGameMode, controlMode, dragAxis,
             showSettingsOverlay, isPlaying, paused>>
orientVars == <<headRotation, touchRotation, baseRotation,
                lastRawOrientation, isCalibrationMode>>
pointerVars == <<isDragging, lastPointer, isSeeking, pointerDownAt>>
gazeVars == <<hoveredWord, dwellProgress, lastHoverTimeRef, isTranslating,
              definition, inflight>>
gameVars == <<gameStats, hitObjects>>
dataVars == <<libraryItems, activeProfile, gamepadMapping, importAlert>>
envVars == <<now, probe>>
histVars == <<ep, scored, sampled>>
spawnVars == <<frameCount, lastBeatFrame, notes, audioInit, beat>>
renderVars == <<eyeProps, eyeOut>>
fileVars == <<importDoc, exportFile>>
otherVars == <<spawnVars, renderVars, fileVars>>
appLoopVars == <<gazeTimer, orientListener, requestRef, spawnerPending>>
renderLoopVars == <<frameId, rendererPending, rendererRef, live>>
loopVars == <<appLoopVars, renderLoopVars>>

ZeroRotation == [x |-> 0, y |-> 0]
ZeroStats == [score |-> 0, combo |-> 0, maxCombo |-> 0]

\* PRESETS, with the scale in hundredths
PRESETS ==
    << [id |-> "default", ipdOffset |-> 0, verticalOffset |-> 0, scale |-> 100],
       [id |-> "cardboard-v1", ipdOffset |-> -10, verticalOffset |-> 0, scale |-> 90],
       [id |-> "cardboard-v2", ipdOffset |-> 0, verticalOffset |-> 0, scale |-> 110],
       [id |-> "box-large", ipdOffset |-> 20, verticalOffset |-> 0, scale |-> 100],
       [id |-> "box-small", ipdOffset |-> -20, verticalOffset |-> 0, scale |-> 85] >>

DEFAULT_GAMEPAD_MAPPING ==
    [CLICK |-> 0, RECENTER |-> 1, PLAY_PAUSE |-> 2, SEEK_BACK |-> 14,
     SEEK_FWD |-> 15, MOVE_LEFT |-> 14, MOVE_RIGHT |-> 15, MOVE_UP |-> 12,
     MOVE_DOWN |-> 13, VOL_UP |-> 4, VOL_DOWN |-> 5]

Op(name) == [name |-> name, fired |-> "none", arg |-> 0]

\* a note is identified by the frame that spawned it
NoteIds == 1..NoteFrames

\* no frame has run yet
NoBeat == [above |-> FALSE, peakAt |-> 0, prevPeakAt |-> 0]

\* no gaze tick has run yet
NoEpisode ==
    [el |-> [kind |-> "other", ix |-> -1], start |-> 0, fires |-> 0,
     due |-> FALSE, reached |-> FALSE, progress |-> 0, closed |-> "no",
     suspended |-> FALSE]

\* App(): the state after the first render of the component
InitApp ==
    /\ view = "library"
    /\ mode = "MAGIC_WINDOW"
    /\ isGameMode = FALSE
    /\ controlMode = "SENSOR"
    /\ dragAxis = "FREE"
    /\ showSettingsOverlay = FALSE
    /\ isPlaying = FALSE
    /\ paused = TRUE
    /\ headRotation = ZeroRotation
    /\ touchRotation = ZeroRotation
    /\ baseRotation = Null
    /\ lastRawOrientation = Null
    /\ isCalibrationMode = FALSE
    /\ isDragging = FALSE
    /\ lastPointer = [x |-> 0, y |-> 0]
    /\ isSeeking = FALSE
    /\ pointerDownAt = Null
    /\ hoveredWord = Null
    /\ dwellProgress = 0
    /\ lastHoverTimeRef = 0
    /\ isTranslating = FALSE
    /\ definition = Null
    /\ inflight = <<>>
    /\ gameStats = ZeroStats
    /\ hitObjects = {}
    /\ libraryItems = <<>>
    /\ activeProfile = PRESETS[1]
    /\ gamepadMapping = DEFAULT_GAMEPAD_MAPPING
    /\ importAlert = "none"
    /\ now = CHECK_INTERVAL_MS
    /\ probe = [kind |-> "other", ix |-> 0]
    /\ lastOp = Op("init")
    /\ frameCount = 0
    /\ lastBeatFrame = 0
    /\ notes = <<>>
    /\ audioInit = "unmounted"
    /\ eyeProps = Null
    /\ eyeOut = Null
    /\ importDoc = Null
    /\ exportFile = Null
    /\ gazeTimer = FALSE
    /\ orientListener = FALSE
    /\ requestRef = 0
    /\ spawnerPending = {}
    /\ frameId = 0
    /\ rendererPending = {}
    /\ rendererRef = 0
    /\ live = {}
    /\ ep = NoEpisode
    /\ scored = [n \in NoteIds |-> 0]
    /\ sampled = FALSE
    /\ beat = NoBeat

\* ------------------------------------------------------------------------
\* The effects that install and remove the loops
\* ------------------------------------------------------------------------
\* variant: the gaze interval stays installed in the calibration mode
GazeLoopActive_InCalibration ==
    view = "player" /\ ~showSettingsOverlay

\* the gaze effect installs the interval only under this condition
GazeLoopActive ==
    view = "player" /\ ~isCalibrationMode /\ ~showSettingsOverlay

\* the orientation effect installs the listener only under this condition
OrientationActive == view = "player" /\ controlMode = "SENSOR"

\* EyeView renders the RhythmGameRenderer
SpawnerMounted == view = "player" /\ isGameMode

\* requestAnimationFrame: the handle of a new request
FreshId(pending) ==
    CHOOSE i \in 1..(Cardinality(pending) + 1) : i \notin pending

\* variant: the cleanup of the frame effect cancels nothing
SpawnerCleanup_Nothing(pending) == pending

\* RhythmGameRenderer, the cleanup of the effect on [updateGame]:
\* if (requestRef.current) cancelAnimationFrame(requestRef.current)
SpawnerCleanup(pending) ==
    IF requestRef # 0 THEN pending \ {requestRef} ELSE pending

\* RhythmGameRenderer, the effect on [updateGame], a callback of [isPlaying]:
\* it runs at mount and when isPlaying changes, its cleanup before each run
\* and at unmount
SpawnerEffect ==
    LET runs == SpawnerMounted' /\ (~SpawnerMounted \/ isPlaying' # isPlaying)
        cleaned == IF SpawnerMounted
                   THEN SpawnerCleanup(spawnerPending) ELSE spawnerPending
    IN  IF runs
        THEN /\ requestRef' = FreshId(cleaned)
             /\ spawnerPending' = cleaned \cup {FreshId(cleaned)}
        ELSE IF SpawnerMounted /\ ~SpawnerMounted'
        THEN /\ spawnerPending' = cleaned
             /\ UNCHANGED requestRef
        ELSE UNCHANGED <<requestRef, spawnerPending>>

\* the effects of App and of the spawner after a handler has set the state:
\* each cleanup clears what its effect installed, each effect installs under
\* its condition
AppEffects ==
    /\ gazeTimer' = GazeLoopActive'
    /\ orientListener' = OrientationActive'
    /\ SpawnerEffect

RunEffects == AppEffects /\ UNCHANGED renderLoopVars

\* ------------------------------------------------------------------------
\* Orientation fusion
\* ------------------------------------------------------------------------
\* the rotation handed to both EyeViews
activeRotation == IF controlMode = "SENSOR" THEN headRotation ELSE touchRotation

\* e.alpha || 0 : a null (or zero) axis reads as 0
OrZero(v) == IF v = Null THEN 0 ELSE Val(v)

NormalizeYaw(d) ==
    LET a == IF d > Deg(180) THEN d - Deg(360) ELSE d
    IN  IF a < 0 - Deg(180) THEN a + Deg(360) ELSE a

ClampPitch(p) == Max(0 - Deg(SENSOR_PITCH_LIMIT), Min(Deg(SENSOR_PITCH_LIMIT), p))

\* variant: a withheld alpha axis is read as 0 instead of ending the handler
handleOrientation_NullAsZero(alpha, beta, gamma, isLandscape) ==
    /\ orientListener
    /\ LET raw == [alpha |-> OrZero(alpha), beta |-> OrZero(beta),
                   gamma |-> OrZero(gamma)]
           base == IF baseRotation = Null THEN raw ELSE Val(baseRotation)
           yaw == NormalizeYaw(OrZero(alpha) - base.alpha)
           pitch == IF isLandscape
                    THEN OrZero(gamma) - base.gamma
                    ELSE OrZero(beta) - base.beta
       IN  /\ lastRawOrientation' = Some(raw)
           /\ baseRotation' = Some(base)
           /\ headRotation' = [x |-> ClampPitch(pitch), y |-> yaw]
    /\ lastOp' = [Op("handleOrientation") EXCEPT
                     !.fired = IF alpha = Null THEN "ignored" ELSE "sample"]
    /\ sampled' = (sampled \/ alpha # Null)
    /\ UNCHANGED <<appVars, touchRotation, isCalibrationMode, pointerVars,
                   gazeVars, gameVars, dataVars, envVars, ep, scored>>
    /\ UNCHANGED otherVars
    /\ RunEffects

\* handleOrientation: the deviceorientation listener, installed while the
\* player is shown in SENSOR mode
handleOrientation(alpha, beta, gamma, isLandscape) ==
    /\ orientListener
    /\ IF alpha = Null
       THEN UNCHANGED <<lastRawOrientation, baseRotation, headRotation>>
       ELSE LET raw == [alpha |-> OrZero(alpha), beta |-> OrZero(beta),
                        gamma |-> OrZero(gamma)]
                base == IF baseRotation = Null THEN raw ELSE Val(baseRotation)
                yaw == NormalizeYaw(OrZero(alpha) - base.alpha)
                pitch == IF isLandscape
                         THEN OrZero(gamma) - base.gamma
                         ELSE OrZero(beta) - base.beta
            IN  /\ lastRawOrientation' = Some(raw)
                /\ baseRotation' = Some(base)
                /\ headRotation' = [x |-> ClampPitch(pitch), y |-> yaw]
    /\ lastOp' = [Op("handleOrientation") EXCEPT
                     !.fired = IF alpha = Null THEN "ignored" ELSE "sample"]
    /\ sampled' = (sampled \/ alpha # Null)
    /\ UNCHANGED <<appVars, touchRotation, isCalibrationMode, pointerVars,
                   gazeVars, gameVars, dataVars, envVars, ep, scored>>
    /\ UNCHANGED otherVars
    /\ RunEffects

\* variant: the recenter resets the touch accumulator in either mode
confirmRecenter_ResetsTouch ==
    /\ IF controlMode = "SENSOR" /\ lastRawOrientation # Null
       THEN baseRotation' = lastRawOrientation
       ELSE UNCHANGED baseRotation
    /\ touchRotation' = ZeroRotation
    /\ isCalibrationMode' = FALSE

\* confirmRecenter: sets baseRotation, touchRotation, isCalibrationMode
confirmRecenter ==
    /\ IF controlMode = "SENSOR" /\ lastRawOrientation # Null
       THEN /\ baseRotation' = lastRawOrientation
            /\ UNCHANGED touchRotation
       ELSE IF controlMode = "TOUCH"
            THEN /\ touchRotation' = ZeroRotation
                 /\ UNCHANGED baseRotation
            ELSE UNCHANGED <<baseRotation, touchRotation>>
    /\ isCalibrationMode' = FALSE

\* ------------------------------------------------------------------------
\* The document under the probe point
\* ------------------------------------------------------------------------
\* parsedWords of the displayed cue, as character sequences
CueWords ==
    << <<"t","h","e">>, <<"c","a","t",",">>, <<"t","h","e">> >>

\* the characters the regular expression of SubtitleRenderer strips
Punctuation ==
    {".", ",", "/", "#", "!", "$", "%", "^", "&", "*", ";", ":", "{", "}",
     "=", "-", "_", "backtick", "~", "(", ")"}

IsKept(c) == c \notin Punctuation

\* SubtitleRenderer: cleanWord, the data-word of a token
cleanWord(word) == SelectSeq(word, IsKept)

\* the data-word of the close-definition button
CloseBtn == <<"c","l","o","s","e","-","b","t","n">>

NoElement == [kind |-> "none", ix |-> 0]
OtherElement == [kind |-> "other", ix |-> 0]
RecenterElement == [kind |-> "action", ix |-> 0]
CloseElement == [kind |-> "close", ix |-> 0]
WordElement(i) == [kind |-> "word", ix |-> i]
NoteElement(n) == [kind |-> "note", ix |-> n]

\* whether React currently renders the element (EyeView, RhythmGameRenderer)
Rendered(e) ==
    CASE e.kind = "close" -> definition # Null
      [] e.kind = "action" -> mode = "STEREO"
      [] e.kind = "note" ->
            isGameMode /\ \E k \in 1..Len(notes) : notes[k].id = e.ix
      [] OTHER -> TRUE

\* document.elementFromPoint at the probe point.  Outside STEREO the probe
\* point is the screen centre, where the centre play button of the overlay
\* controls (or the settings popup) lies on top of the eye view.
elementFromPoint ==
    IF probe.kind = "none" THEN NoElement
    ELSE IF mode # "STEREO" THEN OtherElement
    ELSE IF Rendered(probe) THEN probe
    ELSE OtherElement

\* the dataset.word of the closest data-word ancestor
dataWord(el) ==
    IF el.kind = "close" THEN CloseBtn ELSE cleanWord(CueWords[el.ix])

IsWordEl(el) == el.kind \in {"word", "close"}

\* ------------------------------------------------------------------------
\* Playback, translation, definition
\* ------------------------------------------------------------------------
\* togglePlay: sets isPlaying, paused
togglePlay ==
    IF paused
    THEN paused' = FALSE /\ isPlaying' = TRUE
    ELSE paused' = TRUE /\ isPlaying' = FALSE

\* handleTranslate up to its await: sets isTranslating, paused, isPlaying,
\* inflight
handleTranslate(word) ==
    /\ isTranslating' = TRUE
    /\ paused' = TRUE
    /\ isPlaying' = FALSE
    /\ inflight' = Append(inflight, word)

\* variant: closing the definition leaves the progress where it was
closeDefinition_KeepsProgress ==
    /\ definition' = Null
    /\ UNCHANGED dwellProgress
    /\ hoveredWord' = Null
    /\ lastHoverTimeRef' = now
    /\ paused' = FALSE
    /\ isPlaying' = TRUE

\* closeDefinition: sets definition, dwellProgress, hoveredWord,
\* lastHoverTimeRef, paused, isPlaying
closeDefinition ==
    /\ definition' = Null
    /\ dwellProgress' = 0
    /\ hoveredWord' = Null
    /\ lastHoverTimeRef' = now
    /\ paused' = FALSE
    /\ isPlaying' = TRUE

\* variant: the consumed-id set is never consulted
NoteConsumed_Never(noteId) == FALSE

\* hitObjectsRef.current.has(noteId)
NoteConsumed(noteId) == noteId \in hitObjects

\* variant: every note scores 100, whatever the combo
scoreNote_FlatScore(noteId) ==
    /\ hitObjects' = hitObjects \cup {noteId}
    /\ gameStats' =
         [score |-> gameStats.score + 100,
          combo |-> gameStats.combo + 1,
          maxCombo |-> Max(gameStats.maxCombo, gameStats.combo + 1)]

\* the scoring of one note: sets gameStats, hitObjects
scoreNote(noteId) ==
    /\ hitObjects' = hitObjects \cup {noteId}
    /\ gameStats' =
         [score |-> gameStats.score + 100 + gameStats.combo * 10,
          combo |-> gameStats.combo + 1,
          maxCombo |-> Max(gameStats.maxCombo, gameStats.combo + 1)]

Fired(name, what, arg) == [name |-> name, fired |-> what, arg |-> arg]

\* ------------------------------------------------------------------------
\* Library and session
\* ------------------------------------------------------------------------
\* VideoLibrary.handleSaveEdit: a new network item is unconfigured, a
\* finalized local file is configured; ids are creation stamps
addItem(configured) ==
    /\ view = "library"
    /\ Len(libraryItems) < MaxItems
    /\ libraryItems' =
         <<[id |-> Len(libraryItems) + 1, isConfigured |-> configured]>>
         \o libraryItems
    /\ lastOp' = Op("addItem")
    /\ UNCHANGED <<appVars, orientVars, pointerVars, gazeVars, gameVars,
                   activeProfile, gamepadMapping, importAlert, envVars,
                   histVars>>
    /\ UNCHANGED otherVars
    /\ RunEffects

MarkConfigured(items, id) ==
    [k \in 1..Len(items) |->
        IF items[k].id = id
        THEN [items[k] EXCEPT !.isConfigured = TRUE] ELSE items[k]]

\* RhythmGameRenderer, the effect on [mediaRef] run once at mount: the
\* analyser is created, the set-up throws (cross-origin media, no user
\* interaction yet) or the effect returns at once for want of a media element
AudioOutcomes == {"ok", "threw", "noMedia"}

\* handleStartPlay(item, config), with the handleEnterVR it calls for a
\* STEREO config; a game-mode config mounts the RhythmGameRenderer
handleStartPlay(k, cfgMode, cfgGame, cfgControl, cfgAxis) ==
    /\ view = "library"
    /\ k \in 1..Len(libraryItems)
    /\ mode' = cfgMode
    /\ isGameMode' = cfgGame
    /\ controlMode' = IF cfgMode = "STEREO" THEN "SENSOR" ELSE cfgControl
    /\ dragAxis' = cfgAxis
    /\ definition' = Null
    /\ isPlaying' = FALSE
    /\ paused' = TRUE
    /\ baseRotation' = Null
    /\ headRotation' = ZeroRotation
    /\ touchRotation' = ZeroRotation
    /\ isCalibrationMode' = FALSE
    /\ gameStats' = ZeroStats
    /\ hitObjects' = {}
    /\ isSeeking' = FALSE
    /\ showSettingsOverlay' = ~libraryItems[k].isConfigured
    /\ libraryItems' = MarkConfigured(libraryItems, libraryItems[k].id)
    /\ view' = "player"
    /\ lastOp' = Op("handleStartPlay")
    /\ UNCHANGED <<lastRawOrientation, isDragging, lastPointer,
                   pointerDownAt, hoveredWord,
                   dwellProgress, lastHoverTimeRef, isTranslating, inflight,
                   activeProfile, gamepadMapping, importAlert, envVars>>
    /\ frameCount' = 0
    /\ lastBeatFrame' = 0
    /\ notes' = <<>>
    /\ audioInit' \in IF cfgGame THEN AudioOutcomes ELSE {"unmounted"}
    /\ ep' = NoEpisode
    /\ scored' = [n \in NoteIds |-> 0]
    /\ sampled' = FALSE
    /\ beat' = NoBeat
    /\ UNCHANGED <<renderVars, fileVars>>
    /\ RunEffects

\* VRVideoRenderer, the cleanup of its effect: cancelAnimationFrame(frameId)
RendererCleanup(pending) == pending \ {frameId}

\* whether the effect of the mounted VRVideoRenderer has run
RendererSetUp == eyeOut # Null /\ Val(eyeOut).texture # Null

\* what one run of the effect of VRVideoRenderer creates: the sphere
\* geometry, the material, the video texture, the WebGL renderer, its canvas
\* appended to the container, the resize listener
RendererResources ==
    {"geometry", "material", "texture", "renderer", "canvas", "resize"}

Resource(n, kind) == [setup |-> n, res |-> kind]

SetupResources(n) == {Resource(n, k) : k \in RendererResources}

\* the set-ups that still hold a resource
LiveSetups(resources) == {x.setup : x \in resources}

\* the number of a new set-up
FreshSetup(resources) ==
    CHOOSE n \in 1..(Cardinality(LiveSetups(resources)) + 1) :
        n \notin LiveSetups(resources)

\* variant: the cleanup forgets the texture and the resize listener
ResourcesCleanup_KeepsTexture(resources) ==
    resources \ { Resource(rendererRef, k) :
                    k \in {"geometry", "material", "renderer", "canvas"} }

\* VRVideoRenderer, the cleanup of its effect: the resize listener removed,
\* the renderer of rendererRef.current disposed and its canvas taken out of
\* the container (or gone with the unmounted container), the geometry, the
\* material and the texture of the run disposed
ResourcesCleanup(resources) ==
    resources \ { Resource(rendererRef, k) : k \in RendererResources }

\* handleExit: the back button of the overlay controls, or the Escape key;
\* the library replaces the player, the eye views unmount
handleExit ==
    /\ view = "player"
    /\ paused' = TRUE
    /\ view' = "library"
    /\ lastOp' = Op("handleExit")
    /\ UNCHANGED <<mode, isGameMode, controlMode, dragAxis,
                   showSettingsOverlay, isPlaying, orientVars, pointerVars,
                   gazeVars, gameVars, dataVars, envVars,
                   histVars>>
    /\ UNCHANGED <<spawnVars, fileVars>>
    /\ eyeProps' = Null
    /\ eyeOut' = Null
    /\ rendererPending' = IF RendererSetUp
                          THEN RendererCleanup(rendererPending)
                          ELSE rendererPending
    /\ live' = IF RendererSetUp THEN ResourcesCleanup(live) ELSE live
    /\ UNCHANGED <<frameId, rendererRef>>
    /\ AppEffects

\* handleEnterVR: the cardboard button of the bottom bar
handleEnterVR ==
    /\ view = "player"
    /\ mode # "STEREO"
    /\ mode' = "STEREO"
    /\ controlMode' = "SENSOR"
    /\ lastOp' = Op("handleEnterVR")
    /\ UNCHANGED <<view, isGameMode, dragAxis, showSettingsOverlay, isPlaying,
                   paused, orientVars, pointerVars, gazeVars, gameVars,
                   dataVars, envVars,
                   histVars>>
    /\ UNCHANGED otherVars
    /\ RunEffects

\* handleExitVRMode: the exit button shown in STEREO
handleExitVRMode ==
    /\ view = "player"
    /\ mode = "STEREO"
    /\ mode' = "MAGIC_WINDOW"
    /\ lastOp' = Op("handleExitVRMode")
    /\ UNCHANGED <<view, isGameMode, controlMode, dragAxis,
                   showSettingsOverlay, isPlaying, paused, orientVars,
                   pointerVars, gazeVars, gameVars, dataVars, envVars,
                   histVars>>
    /\ UNCHANGED otherVars
    /\ RunEffects

\* the cog button and the close button of the settings popup
setShowSettingsOverlay(b) ==
    /\ view = "player"
    /\ mode # "STEREO"
    /\ b # showSettingsOverlay
    /\ showSettingsOverlay' = b
    /\ lastOp' = Op("setShowSettingsOverlay")
    /\ UNCHANGED <<view, mode, isGameMode, controlMode, dragAxis, isPlaying,
                   paused, orientVars, pointerVars, gazeVars, gameVars,
                   dataVars, envVars,
                   histVars>>
    /\ UNCHANGED otherVars
    /\ RunEffects

\* the control-mode buttons of the settings popup
setControlMode(m) ==
    /\ view = "player"
    /\ mode # "STEREO"
    /\ showSettingsOverlay
    /\ controlMode' = m
    /\ lastOp' = Op("setControlMode")
    /\ UNCHANGED <<view, mode, isGameMode, dragAxis, showSettingsOverlay,
                   isPlaying, paused, orientVars, pointerVars, gazeVars,
                   gameVars, dataVars, envVars,
                   histVars>>
    /\ UNCHANGED otherVars
    /\ RunEffects

\* the drag-axis buttons of the settings popup
setDragAxis(a) ==
    /\ view = "player"
    /\ mode # "STEREO"
    /\ showSettingsOverlay
    /\ dragAxis' = a
    /\ lastOp' = Op("setDragAxis")
    /\ UNCHANGED <<view, mode, isGameMode, controlMode, showSettingsOverlay,
                   isPlaying, paused, orientVars, pointerVars, gazeVars,
                   gameVars, dataVars, envVars,
                   histVars>>
    /\ UNCHANGED otherVars
    /\ RunEffects

\* handleKeyDown, key r or R
keyCalibration ==
    /\ view = "player"
    /\ isCalibrationMode' = ~isCalibrationMode
    /\ lastOp' = Op("handleKeyDown")
    /\ UNCHANGED <<appVars, headRotation, touchRotation, baseRotation,
                   lastRawOrientation, pointerVars, gazeVars, gameVars,
                   dataVars, envVars,
                   histVars>>
    /\ UNCHANGED otherVars
    /\ RunEffects

\* handleKeyDown, space or Enter, and the centre play button
keyTogglePlay ==
    /\ view = "player"
    /\ togglePlay
    /\ lastOp' = Fired("handleKeyDown", "togglePlay", 0)
    /\ UNCHANGED <<view, mode, isGameMode, controlMode, dragAxis,
                   showSettingsOverlay, orientVars, pointerVars, gazeVars,
                   gameVars, dataVars, envVars,
                   histVars>>
    /\ UNCHANGED otherVars
    /\ RunEffects

\* ------------------------------------------------------------------------
\* History of the gaze ticks (read by the properties only)
\* ------------------------------------------------------------------------
\* ep.el is the element the latest tick found and ep.start the time of the
\* first tick of the unbroken run of ticks that found it; fires counts the
\* lookups started for that element since (to 2), reached records a tick
\* that computed the progress 1, due a tick that found the run at least
\* DWELL_TIME_MS old with no lookup pending and no definition displayed,
\* progress the dwellProgress the latest tick left; closed tells
\* whether closeDefinition ran since the latest tick ("now"), earlier in the
\* run ("before") or not since ep.start ("no"); suspended tells whether
\* time has passed with the gaze loop not installed since the latest tick.
EpAfterClick(op) ==
    IF op.fired = "translate" /\ ep.el = [kind |-> "word", ix |-> op.arg]
    THEN [ep EXCEPT !.fires = Min(2, @ + 1)]
    ELSE IF op.fired = "close" THEN [ep EXCEPT !.closed = "now"]
    ELSE ep

EpAfterTick(el, t, op, progressLeft) ==
    LET base == IF el = ep.el THEN ep
                ELSE [NoEpisode EXCEPT !.el = el, !.start = t]
        isWord == el.kind = "word"
        word == IF isWord THEN dataWord(el) ELSE <<>>
        firedNow == op.fired = "translate"
        free == ~isTranslating /\ definition = Null
        full == /\ hoveredWord = Some(word)
                /\ lastHoverTimeRef > 0
                /\ t - lastHoverTimeRef >= DWELL_TIME_MS
    IN  [base EXCEPT
            !.fires = IF firedNow THEN Min(2, @ + 1) ELSE @,
            !.due = @ \/ (isWord /\ t - base.start >= DWELL_TIME_MS /\ free),
            !.reached = @ \/ (isWord /\ full),
            !.progress = progressLeft,
            !.closed = IF @ = "now" THEN "before" ELSE @,
            !.suspended = FALSE]

ScoredAfter(op) ==
    IF op.fired = "score"
    THEN [scored EXCEPT ![op.arg] = Min(2, @ + 1)]
    ELSE scored

\* ------------------------------------------------------------------------
\* Click activation
\* ------------------------------------------------------------------------
\* variant: a click on a word starts a lookup while another one is pending
ClickMayTranslate_WhilePending == definition = Null /\ ~isGameMode

\* whether a click on a word may start a lookup
ClickMayTranslate == ~isTranslating /\ definition = Null /\ ~isGameMode

\* handleScreenClick: sets baseRotation, touchRotation, isCalibrationMode,
\* isPlaying, paused, gazeVars, gameVars and lastOp
handleScreenClick ==
    LET el == elementFromPoint IN
    IF isCalibrationMode THEN
        /\ confirmRecenter
        /\ lastOp' = Fired("handleScreenClick", "recenter", 0)
        /\ UNCHANGED <<isPlaying, paused, gazeVars, gameVars>>
    ELSE IF el.kind = "none" THEN
        /\ IF mode = "STEREO"
           THEN togglePlay /\ lastOp' = Fired("handleScreenClick", "togglePlay", 0)
           ELSE UNCHANGED <<isPlaying, paused>>
                /\ lastOp' = Op("handleScreenClick")
        /\ UNCHANGED <<baseRotation, touchRotation, isCalibrationMode,
                       gazeVars, gameVars>>
    ELSE IF el.kind = "action" THEN
        /\ isCalibrationMode' = TRUE
        /\ lastOp' = Fired("handleScreenClick", "calibrate", 0)
        /\ UNCHANGED <<baseRotation, touchRotation, isPlaying, paused,
                       gazeVars, gameVars>>
    ELSE IF el.kind = "note" THEN
        /\ IF ~NoteConsumed(el.ix)
           THEN scoreNote(el.ix)
                /\ lastOp' = Fired("handleScreenClick", "score", el.ix)
           ELSE UNCHANGED gameVars /\ lastOp' = Op("handleScreenClick")
        /\ UNCHANGED <<baseRotation, touchRotation, isCalibrationMode,
                       isPlaying, paused, gazeVars>>
    ELSE IF IsWordEl(el) THEN
        IF dataWord(el) = CloseBtn THEN
            /\ closeDefinition
            /\ lastOp' = Fired("handleScreenClick", "close", 0)
            /\ UNCHANGED <<baseRotation, touchRotation, isCalibrationMode,
                           isTranslating, inflight, gameVars>>
        ELSE IF ClickMayTranslate THEN
            /\ handleTranslate(dataWord(el))
            /\ lastOp' = Fired("handleScreenClick", "translate", el.ix)
            /\ UNCHANGED <<baseRotation, touchRotation, isCalibrationMode,
                           hoveredWord, dwellProgress, lastHoverTimeRef,
                           definition, gameVars>>
        ELSE
            /\ lastOp' = Op("handleScreenClick")
            /\ UNCHANGED <<baseRotation, touchRotation, isCalibrationMode,
                           isPlaying, paused, gazeVars, gameVars>>
    ELSE
        /\ IF mode = "STEREO"
           THEN togglePlay /\ lastOp' = Fired("handleScreenClick", "togglePlay", 0)
           ELSE UNCHANGED <<isPlaying, paused>>
                /\ lastOp' = Op("handleScreenClick")
        /\ UNCHANGED <<baseRotation, touchRotation, isCalibrationMode,
                       gazeVars, gameVars>>

\* ------------------------------------------------------------------------
\* Pointer handlers
\* ------------------------------------------------------------------------
\* onPointerDown at (cx, cy); onBar: the target lies in the progress bar,
\* which the overlay controls render outside STEREO
onPointerDown(cx, cy, onBar) ==
    /\ view = "player"
    /\ onBar => mode # "STEREO"
    /\ isDragging' = FALSE
    /\ lastPointer' = [x |-> cx, y |-> cy]
    /\ isSeeking' = IF onBar THEN TRUE ELSE isSeeking
    /\ pointerDownAt' = Some([x |-> cx, y |-> cy, onBar |-> onBar])
    /\ lastOp' = Op("onPointerDown")
    /\ UNCHANGED <<appVars, orientVars, gazeVars, gameVars, dataVars, envVars,
                   histVars>>
    /\ UNCHANGED otherVars
    /\ RunEffects

\* onPointerMove to (cx, cy); pressed: e.buttons > 0
onPointerMove(cx, cy, pressed) ==
    LET deltaX == cx - lastPointer.x
        deltaY == cy - lastPointer.y
        newY == touchRotation.y + deltaX
        newX == IF dragAxis = "FREE"
                THEN Max(0 - Deg(TOUCH_PITCH_LIMIT),
                         Min(Deg(TOUCH_PITCH_LIMIT), touchRotation.x + deltaY))
                ELSE touchRotation.x
    IN
    /\ view = "player"
    /\ IF isSeeking /\ mode # "STEREO"
       THEN UNCHANGED <<isDragging, lastPointer, touchRotation>>
       ELSE /\ isDragging' =
                 IF Abs(deltaX) > DRAG_THRESHOLD_PX \/ Abs(deltaY) > DRAG_THRESHOLD_PX
                 THEN TRUE ELSE isDragging
            /\ IF controlMode = "TOUCH" /\ pressed /\ ~isSeeking
               THEN /\ Abs(newY) <= Deg(MaxTouchYaw)
                    /\ touchRotation' = [x |-> newX, y |-> newY]
               ELSE UNCHANGED touchRotation
            /\ lastPointer' = [x |-> cx, y |-> cy]
    /\ lastOp' = IF ~(isSeeking /\ mode # "STEREO")
                    /\ controlMode = "TOUCH" /\ pressed /\ ~isSeeking
                 THEN Fired("onPointerMove", "rotate", 0)
                 ELSE Op("onPointerMove")
    /\ UNCHANGED <<appVars, headRotation, baseRotation, lastRawOrientation,
                   isCalibrationMode, isSeeking, pointerDownAt, gazeVars,
                   gameVars, dataVars,
                   envVars,
                   histVars>>
    /\ UNCHANGED otherVars
    /\ RunEffects

\* onPointerUp (also bound to pointercancel)
onPointerUp ==
    /\ view = "player"
    /\ IF isSeeking THEN
           /\ isSeeking' = FALSE
           /\ lastOp' = Op("onPointerUp")
           /\ UNCHANGED <<isDragging, baseRotation, touchRotation,
                          isCalibrationMode, isPlaying, paused, gazeVars,
                          gameVars>>
       ELSE
           /\ IF ~isDragging
              THEN handleScreenClick
              ELSE /\ lastOp' = Op("onPointerUp")
                   /\ UNCHANGED <<baseRotation, touchRotation,
                                  isCalibrationMode, isPlaying, paused,
                                  gazeVars, gameVars>>
           /\ isDragging' = FALSE
           /\ UNCHANGED isSeeking
    /\ UNCHANGED <<view, mode, isGameMode, controlMode, dragAxis,
                   showSettingsOverlay, headRotation, lastRawOrientation,
                   lastPointer, dataVars, envVars>>
    /\ pointerDownAt' = Null
    /\ ep' = EpAfterClick(lastOp')
    /\ scored' = ScoredAfter(lastOp')
    /\ UNCHANGED sampled
    /\ UNCHANGED otherVars
    /\ RunEffects

\* the onClick of the close-definition button of EyeView
onCloseDefinition ==
    /\ view = "player"
    /\ definition # Null
    /\ closeDefinition
    /\ lastOp' = Fired("onCloseDefinition", "close", 0)
    /\ UNCHANGED <<view, mode, isGameMode, controlMode, dragAxis,
                   showSettingsOverlay, orientVars, pointerVars,
                   isTranslating, inflight, gameVars, dataVars, envVars>>
    /\ ep' = EpAfterClick(lastOp')
    /\ UNCHANGED <<scored, sampled>>
    /\ UNCHANGED otherVars
    /\ RunEffects

\* handleTranslate after its await: the lookup for inflight[i] has returned,
\* translateWord having turned any failure into the placeholder definition
translateDone(i, translation) ==
    /\ i \in 1..Len(inflight)
    /\ definition' = Some([word |-> inflight[i], translation |-> translation])
    /\ isTranslating' = FALSE
    /\ inflight' = SubSeq(inflight, 1, i - 1) \o SubSeq(inflight, i + 1, Len(inflight))
    /\ lastOp' = Op("translateDone")
    /\ UNCHANGED <<appVars, orientVars, pointerVars, hoveredWord,
                   dwellProgress, lastHoverTimeRef, gameVars, dataVars,
                   envVars,
                   histVars>>
    /\ UNCHANGED otherVars
    /\ RunEffects

\* how the generateContent call of translateWord ends: a JSON text, a text
\* that does not parse, a response without text, a rejection
LookupOutcomes == {"text", "malformed", "empty", "threw"}

\* variant: translateWord lets a failure escape instead of catching it
translateWord_Rethrowing(word, outcome) ==
    IF outcome = "text"
    THEN Some([word |-> word, translation |-> "ok"])
    ELSE Null

\* translateWord: what the promise resolves to, Null standing for a
\* rejection; the catch turns every failure into the placeholder definition
translateWord(word, outcome) ==
    IF outcome = "text"
    THEN Some([word |-> word, translation |-> "ok"])
    ELSE Some([word |-> word, translation |-> "Error"])

\* the promise handleTranslate awaits settles: on a value the handler
\* resumes, on a rejection the rest of it is skipped
lookupSettles(outcome) ==
    /\ inflight # <<>>
    /\ LET result == translateWord(inflight[1], outcome) IN
       IF result # Null
       THEN translateDone(1, Val(result).translation)
       ELSE /\ inflight' = Tail(inflight)
            /\ lastOp' = Fired("translateDone", "rejected", 0)
            /\ UNCHANGED <<appVars, orientVars, pointerVars, hoveredWord,
                           dwellProgress, lastHoverTimeRef, isTranslating,
                           definition, gameVars, dataVars, envVars, histVars>>
            /\ UNCHANGED otherVars
            /\ RunEffects
    /\ RunEffects

\* ------------------------------------------------------------------------
\* Gaze / dwell loop
\* ------------------------------------------------------------------------
\* variant: the progress wraps around instead of saturating
Progress_Wrapping(elapsed) == elapsed % DWELL_TIME_MS

\* Math.min(1, elapsed / DWELL_TIME_MS), as a numerator over DWELL_TIME_MS
Progress(elapsed) == Min(DWELL_TIME_MS, elapsed)

\* variant: a completed dwell needs a definition of another word on display
DwellMayFire_NeedsDefinition(word) ==
    ~isTranslating /\ definition # Null /\ Val(definition).word # word

\* whether a completed dwell on word may start a lookup
DwellMayFire(word) ==
    ~isTranslating /\ (definition = Null \/ Val(definition).word # word)

\* whether the tick sees another word than the hovered one
IsNewWord(word) == hoveredWord # Some(word)

\* checkGaze at time t: sets gazeVars, gameVars, isPlaying, paused, lastOp
checkGaze(t) ==
    LET el == elementFromPoint IN
    IF el.kind = "none" THEN
        /\ hoveredWord' = Null
        /\ dwellProgress' = 0
        /\ lastHoverTimeRef' = 0
        /\ lastOp' = Op("checkGaze")
        /\ UNCHANGED <<isTranslating, definition, inflight, gameVars,
                       isPlaying, paused>>
    ELSE
        LET scores == isGameMode /\ el.kind = "note" /\ ~NoteConsumed(el.ix)
        IN
        /\ IF scores THEN scoreNote(el.ix) ELSE UNCHANGED gameVars
        /\ IF IsWordEl(el) THEN
               LET word == dataWord(el) IN
               IF word # <<>> THEN
                   IF IsNewWord(word) THEN
                       /\ hoveredWord' = Some(word)
                       /\ lastHoverTimeRef' = t
                       /\ dwellProgress' = 0
                       /\ lastOp' = Op("checkGaze")
                       /\ UNCHANGED <<isTranslating, definition, inflight,
                                      isPlaying, paused>>
                   ELSE IF lastHoverTimeRef > 0 THEN
                       LET progress == Progress(t - lastHoverTimeRef) IN
                       IF progress >= DWELL_TIME_MS /\ DwellMayFire(word) THEN
                           /\ handleTranslate(word)
                           /\ lastHoverTimeRef' = 0
                           /\ dwellProgress' = 0
                           /\ lastOp' = Fired("checkGaze", "translate", el.ix)
                           /\ UNCHANGED <<hoveredWord, definition>>
                       ELSE
                           /\ dwellProgress' = progress
                           /\ lastOp' = Op("checkGaze")
                           /\ UNCHANGED <<hoveredWord, lastHoverTimeRef,
                                          isTranslating, definition, inflight,
                                          isPlaying, paused>>
                   ELSE
                       /\ lastOp' = Op("checkGaze")
                       /\ UNCHANGED <<gazeVars, isPlaying, paused>>
               ELSE
                   /\ lastOp' = Op("checkGaze")
                   /\ UNCHANGED <<gazeVars, isPlaying, paused>>
           ELSE
               /\ IF hoveredWord # Null
                  THEN /\ hoveredWord' = Null
                       /\ dwellProgress' = 0
                       /\ lastHoverTimeRef' = 0
                  ELSE UNCHANGED <<hoveredWord, dwellProgress, lastHoverTimeRef>>
               /\ lastOp' = IF scores THEN Fired("checkGaze", "score", el.ix)
                                      ELSE Op("checkGaze")
               /\ UNCHANGED <<isTranslating, definition, inflight, isPlaying,
                              paused>>

\* the gaze interval comes due, TickGap ms after it last did; checkGaze runs
\* if the interval is installed.  The clock is read by the player's handlers
\* and by the callback of the interval only.
Tick ==
    /\ view = "player" \/ gazeTimer
    /\ now + TickGap <= MaxNow
    /\ now' = now + TickGap
    /\ IF gazeTimer
       THEN checkGaze(now')
       ELSE /\ lastOp' = Op("timePasses")
            /\ UNCHANGED <<gazeVars, gameVars, isPlaying, paused>>
    /\ UNCHANGED <<view, mode, isGameMode, controlMode, dragAxis,
                   showSettingsOverlay, orientVars, pointerVars, dataVars,
                   probe>>
    /\ ep' = IF gazeTimer
             THEN EpAfterTick(elementFromPoint, now', lastOp', dwellProgress')
             ELSE [ep EXCEPT !.suspended = TRUE]
    /\ scored' = ScoredAfter(lastOp')
    /\ UNCHANGED sampled
    /\ UNCHANGED otherVars
    /\ RunEffects

\* the head turns, the cue or the notes move: another element comes to lie
\* under the probe point
moveProbe(e) ==
    /\ view = "player"
    /\ e # probe
    /\ probe' = e
    /\ lastOp' = Op("moveProbe")
    /\ UNCHANGED <<appVars, orientVars, pointerVars, gazeVars, gameVars,
                   dataVars, now, histVars>>
    /\ UNCHANGED otherVars
    /\ RunEffects

\* ------------------------------------------------------------------------
\* RhythmGameRenderer: the beat synchronised spawner
\* ------------------------------------------------------------------------
\* bassSum over the first BASS_BINS bins of the byte frequency data
bassSum(bins) == bins[1] + bins[2] + bins[3] + bins[4] + bins[5]

\* bassSum / 5 > BEAT_THRESHOLD, without the division
BassAbove(bins) == bassSum(bins) > BASS_BINS * BEAT_THRESHOLD

\* whether the cooldown since the last spawn has passed at this frame
CooldownOver(frame) == frame - lastBeatFrame > COOLDOWN_FRAMES

\* the bass signal seen so far, after a frame with the given reading
BeatAfter(frame, above) ==
    IF above /\ ~beat.above
    THEN [above |-> TRUE, peakAt |-> frame, prevPeakAt |-> beat.peakAt]
    ELSE [beat EXCEPT !.above = above]

\* variant: the frame loop reads the spectrum without testing the refs
AnalyserReady_Always == TRUE

\* analyserRef.current && dataArrayRef.current
AnalyserReady == audioInit = "ok"

\* variant: the frame loop does not look at isPlaying
FrameIdle_Never == FALSE

\* if (!isPlaying): the frame only requests the next one
FrameIdle == ~isPlaying

\* variant: a note past the despawn depth stays
NoteKept_PastDespawn(note) == ~note.isHit

\* keep if visible and not hit
NoteKept(note) == note.z < DESPAWN_Z /\ ~note.isHit

\* updateGame: the callback of a pending animation-frame request, the
\* analyser (if any) reporting bins; it requests the next frame in every case
updateGame(bins, lane) ==
    /\ spawnerPending # {}
    /\ frameCount < NoteFrames
    /\ LET fired == CHOOSE id \in spawnerPending : TRUE
           left == spawnerPending \ {fired}
       IN  /\ requestRef' = FreshId(left)
           /\ spawnerPending' = left \cup {FreshId(left)}
    /\ UNCHANGED <<gazeTimer, orientListener, renderLoopVars>>
    /\ IF FrameIdle
       THEN /\ lastOp' = Fired("updateGame", "idle", 0)
            /\ UNCHANGED spawnVars
       ELSE LET frame == frameCount + 1
                spawns == AnalyserReady /\ BassAbove(bins) /\ CooldownOver(frame)
                pushed == IF spawns
                          THEN Append(notes, [id |-> frame, lane |-> lane,
                                              z |-> SPAWN_Z, isHit |-> FALSE])
                          ELSE notes
                moved == [k \in 1..Len(pushed) |->
                             [pushed[k] EXCEPT
                                 !.z = @ + SPEED,
                                 !.isHit = @ \/ NoteConsumed(pushed[k].id)]]
            IN  /\ frameCount' = frame
                /\ lastBeatFrame' = IF spawns THEN frame ELSE lastBeatFrame
                /\ notes' = SelectSeq(moved, NoteKept)
                /\ beat' = BeatAfter(frame, BassAbove(bins))
                /\ UNCHANGED audioInit
                /\ lastOp' = Fired("updateGame",
                                   IF spawns THEN "spawn" ELSE "none", frame)
    /\ UNCHANGED <<appVars, orientVars, pointerVars, gazeVars, gameVars,
                   dataVars, envVars, histVars, renderVars, fileVars>>

\* ------------------------------------------------------------------------
\* Per-eye texture windows
\* ------------------------------------------------------------------------
\* enum VideoFormat: the string value of each member
VideoFormat ==
    [MONO_2D |-> <<"M","O","N","O","_","2","D">>,
     STEREO_SBS |-> <<"S","T","E","R","E","O","_","S","B","S">>,
     STEREO_TB |-> <<"S","T","E","R","E","O","_","T","B">>,
     VR180_SBS |-> <<"V","R","1","8","0","_","S","B","S">>,
     VR180_TB |-> <<"V","R","1","8","0","_","T","B">>,
     VR180_MONO |-> <<"V","R","1","8","0","_","M","O","N","O">>,
     VR360_SBS |-> <<"V","R","3","6","0","_","S","B","S">>,
     VR360_TB |-> <<"V","R","3","6","0","_","T","B">>,
     VR360_MONO |-> <<"V","R","3","6","0","_","M","O","N","O">>]

\* String.prototype.includes and startsWith
Includes(str, sub) ==
    \E i \in 1..(Len(str) - Len(sub) + 1) :
        SubSeq(str, i, i + Len(sub) - 1) = sub

StartsWith(str, pre) ==
    Len(str) >= Len(pre) /\ SubSeq(str, 1, Len(pre)) = pre

isVRVideo(format) == StartsWith(VideoFormat[format], <<"V","R">>)

\* VRVideoRenderer: texture.repeat and texture.offset, in percent
TextureMapping(format, eye) ==
    LET isSBS == Includes(VideoFormat[format], <<"S","B","S">>)
        isTB == Includes(VideoFormat[format], <<"T","B">>)
        isStereo == isSBS \/ isTB
    IN  [uScale |-> IF isStereo /\ isSBS THEN 50 ELSE 100,
         vScale |-> IF isStereo /\ isTB THEN 50 ELSE 100,
         uOffset |-> IF isStereo /\ isSBS /\ eye = "right" THEN 50 ELSE 0,
         vOffset |-> IF isStereo /\ isTB /\ eye # "right" THEN 50 ELSE 0]

\* variant: the top-bottom halves of the two eyes exchanged
videoElementStyle_SwappedHalves(type, format, eye) ==
    IF type = "video" /\ ~isVRVideo(format) /\ format # "MONO_2D"
    THEN IF format = "STEREO_SBS"
         THEN [width |-> 200, height |-> 100, top |-> 0,
               left |-> IF eye = "right" THEN -100 ELSE 0]
         ELSE [width |-> 100, height |-> 200, left |-> 0,
               top |-> IF eye = "right" THEN 0 ELSE -100]
    ELSE [width |-> 100, height |-> 100, left |-> 0, top |-> 0]

\* EyeView: videoElementStyle, in percent of the clipping container
videoElementStyle(type, format, eye) ==
    IF type = "video" /\ ~isVRVideo(format) /\ format # "MONO_2D"
    THEN LET isSBS == format = "STEREO_SBS"
             isRightEye == eye = "right"
         IN  IF isSBS
             THEN [width |-> 200, height |-> 100, top |-> 0,
                   left |-> IF isRightEye THEN -100 ELSE 0]
             ELSE [width |-> 100, height |-> 200, left |-> 0,
                   top |-> IF isRightEye THEN -100 ELSE 0]
    ELSE [width |-> 100, height |-> 100, left |-> 0, top |-> 0]

\* the part of the texture a mapping samples: U and V ranges in percent
WindowOfTexture(tx) ==
    [u0 |-> tx.uOffset, u1 |-> tx.uOffset + tx.uScale,
     v0 |-> tx.vOffset, v1 |-> tx.vOffset + tx.vScale]

\* the part of the picture a styled video element shows through its
\* container; V runs upwards, the CSS top downwards
WindowOfStyle(st) ==
    [u0 |-> (100 * (0 - st.left)) \div st.width,
     u1 |-> (100 * (100 - st.left)) \div st.width,
     v0 |-> 100 - (100 * (100 - st.top)) \div st.height,
     v1 |-> 100 - (100 * (0 - st.top)) \div st.height]

\* EyeView renders with the given props; the renderer of a panoramic format
\* is mounted with it and unmounted for any other format
renderEyeView(format, type, eye) ==
    /\ eyeProps' = Some([format |-> format, type |-> type, eye |-> eye])
    /\ eyeOut' =
         Some([style |-> videoElementStyle(type, format, eye),
               texture |-> IF isVRVideo(format) /\ eyeOut # Null
                           THEN Val(eyeOut).texture ELSE Null])
    /\ rendererPending' = IF RendererSetUp /\ ~isVRVideo(format)
                          THEN RendererCleanup(rendererPending)
                          ELSE rendererPending
    /\ live' = IF RendererSetUp /\ ~isVRVideo(format)
               THEN ResourcesCleanup(live) ELSE live
    /\ lastOp' = Op("renderEyeView")
    /\ UNCHANGED <<appVars, orientVars, pointerVars, gazeVars, gameVars,
                   dataVars, envVars, histVars, spawnVars, fileVars,
                   appLoopVars, frameId, rendererRef>>

\* VRVideoRenderer: the effect on [videoElement, format, eye], its cleanup
\* first if it ran before; it ends with the first call of animate
textureEffect ==
    /\ eyeProps # Null
    /\ isVRVideo(Val(eyeProps).format)
    /\ LET cleaned == IF RendererSetUp
                      THEN RendererCleanup(rendererPending)
                      ELSE rendererPending
       IN  /\ frameId' = FreshId(cleaned)
           /\ rendererPending' = cleaned \cup {FreshId(cleaned)}
    /\ LET released == IF RendererSetUp THEN ResourcesCleanup(live) ELSE live
       IN  /\ rendererRef' = FreshSetup(released)
           /\ live' = released \cup SetupResources(FreshSetup(released))
    /\ eyeOut' =
         Some([Val(eyeOut) EXCEPT
                  !.texture = Some(TextureMapping(Val(eyeProps).format,
                                                  Val(eyeProps).eye))])
    /\ lastOp' = Op("textureEffect")
    /\ UNCHANGED <<appVars, orientVars, pointerVars, gazeVars, gameVars,
                   dataVars, envVars, histVars, spawnVars, eyeProps,
                   fileVars, appLoopVars>>

\* VRVideoRenderer: the effect runs again with no video element (the source
\* of the eye is gone): the cleanup of the run before it, then the early
\* return, which sets nothing up and leaves the refs as they are
textureEffectNoVideo ==
    /\ eyeProps # Null
    /\ isVRVideo(Val(eyeProps).format)
    /\ RendererSetUp
    /\ rendererPending' = RendererCleanup(rendererPending)
    /\ live' = ResourcesCleanup(live)
    /\ eyeOut' = Some([Val(eyeOut) EXCEPT !.texture = Null])
    /\ lastOp' = Op("textureEffectNoVideo")
    /\ UNCHANGED <<appVars, orientVars, pointerVars, gazeVars, gameVars,
                   dataVars, envVars, histVars, spawnVars, eyeProps,
                   fileVars, appLoopVars, frameId, rendererRef>>

\* VRVideoRenderer, animate: the callback of a pending animation-frame
\* request renders the scene and requests the next frame
animate ==
    /\ rendererPending # {}
    /\ LET fired == CHOOSE id \in rendererPending : TRUE
           left == rendererPending \ {fired}
       IN  /\ frameId' = FreshId(left)
           /\ rendererPending' = left \cup {FreshId(left)}
    /\ lastOp' = Op("animate")
    /\ UNCHANGED <<appVars, orientVars, pointerVars, gazeVars, gameVars,
                   dataVars, envVars, histVars, otherVars, appLoopVars,
                   rendererRef, live>>

\* ------------------------------------------------------------------------
\* Import of persisted state
\* ------------------------------------------------------------------------
\* the arrays and objects the imported documents hold under each key
ImportedItems == <<[id |-> 9, isConfigured |-> TRUE]>>
ImportedMapping == [DEFAULT_GAMEPAD_MAPPING EXCEPT !.CLICK = 1, !.RECENTER = 0]
ImportValues ==
    [libraryItems |-> << <<>>, ImportedItems >>,
     activeProfile |-> << PRESETS[2] >>,
     gamepadMapping |-> << ImportedMapping >>]

\* what data.key evaluates to: undefined for a key the document lacks, null,
\* a number, or the n-th array or object of ImportValues[key]
JUndefined == [t |-> "undefined", n |-> 0]
JNull == [t |-> "null", n |-> 0]
JNum(n) == [t |-> "number", n |-> n]
JRef(n) == [t |-> "object", n |-> n]

\* the values of a document JSON.stringify wrote: an array with its
\* elements, an object with its members in the order of their keys, a
\* string, a boolean
JArray(items) == [t |-> "array", n |-> 0, items |-> items]
JMembers(keys, vals) == [t |-> "members", n |-> 0, keys |-> keys, vals |-> vals]
JStr(s) == [t |-> "string", n |-> 0, s |-> s]
JBool(b) == [t |-> "boolean", n |-> IF b THEN 1 ELSE 0]

\* variant: an empty array counts as falsy
Truthy_ByLength(j) ==
    CASE j.t = "undefined" -> FALSE
      [] j.t = "null" -> FALSE
      [] j.t = "number" -> j.n # 0
      [] j.t = "boolean" -> j.n # 0
      [] j.t = "string" -> j.s # ""
      [] j.t = "array" -> j.items # <<>>
      [] OTHER -> TRUE

\* if (value): undefined, null, 0, false and "" are falsy, every array and
\* object is truthy
Truthy(j) ==
    CASE j.t = "undefined" -> FALSE
      [] j.t = "null" -> FALSE
      [] j.t = "number" -> j.n # 0
      [] j.t = "boolean" -> j.n # 0
      [] j.t = "string" -> j.s # ""
      [] OTHER -> TRUE

\* the keys of a VRProfile and of a GamepadMapping, in the order the
\* objects are built with
ProfileKeys == <<"id", "ipdOffset", "verticalOffset", "scale">>
MappingKeys == <<"CLICK", "RECENTER", "PLAY_PAUSE", "SEEK_BACK", "SEEK_FWD",
                 "MOVE_LEFT", "MOVE_RIGHT", "MOVE_UP", "MOVE_DOWN", "VOL_UP",
                 "VOL_DOWN">>

\* JSON.stringify of a library item, a profile, a mapping
StringifyItem(item) ==
    JMembers(<<"id", "isConfigured">>,
             <<JNum(item.id), JBool(item.isConfigured)>>)
StringifyProfile(profile) ==
    JMembers(ProfileKeys,
             <<JStr(profile.id), JNum(profile.ipdOffset),
               JNum(profile.verticalOffset), JNum(profile.scale)>>)
StringifyMapping(mapping) ==
    JMembers(MappingKeys,
             [k \in 1..Len(MappingKeys) |-> JNum(mapping[MappingKeys[k]])])

\* JSON.stringify(currentDataExport): the document of the three keys
JSONstringify(data) ==
    [kind |-> "object",
     libraryItems |->
        JArray([k \in 1..Len(data.libraryItems) |->
                   StringifyItem(data.libraryItems[k])]),
     activeProfile |-> StringifyProfile(data.activeProfile),
     gamepadMapping |-> StringifyMapping(data.gamepadMapping)]

\* object.key of a parsed object
Member(j, key) ==
    j.vals[CHOOSE k \in 1..Len(j.keys) : j.keys[k] = key]

\* JSON.parse of what JSON.stringify wrote for a library item, a profile, a
\* mapping
ParseItem(j) ==
    [id |-> Member(j, "id").n,
     isConfigured |-> Member(j, "isConfigured").n # 0]
ParseProfile(j) ==
    [id |-> Member(j, "id").s,
     ipdOffset |-> Member(j, "ipdOffset").n,
     verticalOffset |-> Member(j, "verticalOffset").n,
     scale |-> Member(j, "scale").n]
ParseMapping(j) ==
    [a \in DOMAIN DEFAULT_GAMEPAD_MAPPING |-> Member(j, a).n]

\* data.key of the parsed document: the n-th array or object of
\* ImportValues[key], or the value the exported text holds under the key
Parsed(key, j) ==
    CASE j.t = "object" -> ImportValues[key][j.n]
      [] key = "libraryItems" ->
            [k \in 1..Len(j.items) |-> ParseItem(j.items[k])]
      [] key = "activeProfile" -> ParseProfile(j)
      [] OTHER -> ParseMapping(j)

\* variant: a key the import does not take is reset instead of kept
Imported_Resetting(key, j, current) ==
    IF Truthy(j) THEN Parsed(key, j) ELSE ImportValues[key][1]

\* if (data.key) setKey(data.key): the state of one key after the import
Imported(key, j, current) ==
    IF Truthy(j) THEN Parsed(key, j) ELSE current

\* handleImportData(data)
handleImportData(data) ==
    /\ libraryItems' = Imported("libraryItems", data.libraryItems, libraryItems)
    /\ activeProfile' = Imported("activeProfile", data.activeProfile, activeProfile)
    /\ gamepadMapping' =
         Imported("gamepadMapping", data.gamepadMapping, gamepadMapping)

\* variant: the handler reports success whatever the parse gave
handleImport_AlwaysImported(doc) ==
    /\ IF doc.kind = "object"
       THEN handleImportData(doc)
       ELSE UNCHANGED <<libraryItems, activeProfile, gamepadMapping>>
    /\ importAlert' = "dataImported"
    /\ importDoc' = Some(doc)
    /\ UNCHANGED exportFile
    /\ lastOp' = Op("handleImport")
    /\ UNCHANGED <<appVars, orientVars, pointerVars, gazeVars, gameVars,
                   envVars, histVars, spawnVars, renderVars, loopVars>>

\* SettingsSidebar.handleImport, reader.onload: doc.kind tells whether the
\* text parses to an object, parses to null (reading a key of it throws) or
\* does not parse
handleImport(doc) ==
    /\ IF doc.kind = "object"
       THEN handleImportData(doc) /\ importAlert' = "dataImported"
       ELSE /\ importAlert' = "error"
            /\ UNCHANGED <<libraryItems, activeProfile, gamepadMapping>>
    /\ importDoc' = Some(doc)
    /\ UNCHANGED exportFile
    /\ lastOp' = Op("handleImport")
    /\ UNCHANGED <<appVars, orientVars, pointerVars, gazeVars, gameVars,
                   envVars, histVars, spawnVars, renderVars, loopVars>>

\* exportData of the App: the three persisted values
exportData ==
    [libraryItems |-> libraryItems, activeProfile |-> activeProfile,
     gamepadMapping |-> gamepadMapping]

\* SettingsSidebar.handleExport: the download of the stringified export;
\* the field data of the file is history, the values the text was written
\* from
handleExport ==
    /\ exportFile' = Some([text |-> JSONstringify(exportData),
                           data |-> exportData])
    /\ lastOp' = Op("handleExport")
    /\ UNCHANGED <<appVars, orientVars, pointerVars, gazeVars, gameVars,
                   dataVars, envVars, histVars, spawnVars, renderVars,
                   importDoc, loopVars>>

\* onUpdateMapping(action, btn): one action bound to the button pressed
onUpdateMapping(action, btn) ==
    /\ gamepadMapping' = [gamepadMapping EXCEPT ![action] = btn]
    /\ lastOp' = Op("onUpdateMapping")
    /\ UNCHANGED <<appVars, orientVars, pointerVars, gazeVars, gameVars,
                   libraryItems, activeProfile, importAlert, envVars,
                   histVars, spawnVars, renderVars, fileVars, loopVars>>

\* the sliders of the calibration panel: one setting of the profile
onProfileSetting(key, value) ==
    /\ activeProfile' = [activeProfile EXCEPT ![key] = value]
    /\ lastOp' = Op("onProfileSetting")
    /\ UNCHANGED <<appVars, orientVars, pointerVars, gazeVars, gameVars,
                   libraryItems, gamepadMapping, importAlert, envVars,
                   histVars, spawnVars, renderVars, fileVars, loopVars>>

\* handleClearData
handleClearData ==
    /\ libraryItems' = <<>>
    /\ activeProfile' = PRESETS[1]
    /\ lastOp' = Op("handleClearData")
    /\ UNCHANGED <<appVars, orientVars, pointerVars, gazeVars, gameVars,
                   gamepadMapping, importAlert, envVars, histVars, spawnVars,
                   renderVars, fileVars, loopVars>>

\* onProfileChange: the preset list of the sidebar
setActiveProfile(k) ==
    /\ activeProfile' = PRESETS[k]
    /\ lastOp' = Op("setActiveProfile")
    /\ UNCHANGED <<appVars, orientVars, pointerVars, gazeVars, gameVars,
                   libraryItems, gamepadMapping, importAlert, envVars,
                   histVars, spawnVars, renderVars, fileVars, loopVars>>

\* onResetMapping
onResetMapping ==
    /\ gamepadMapping' = DEFAULT_GAMEPAD_MAPPING
    /\ lastOp' = Op("onResetMapping")
    /\ UNCHANGED <<appVars, orientVars, pointerVars, gazeVars, gameVars,
                   libraryItems, activeProfile, importAlert, envVars,
                   histVars, spawnVars, renderVars, fileVars, loopVars>>

\* ------------------------------------------------------------------------
\* Specifications
\* ------------------------------------------------------------------------
vars == <<appVars, orientVars, pointerVars, gazeVars, gameVars, dataVars,
          envVars, lastOp, histVars, otherVars, loopVars>>

Init == InitApp

\* --- orientation: sensor samples, drags, recenters, control-mode switches
\* raw deviceorientation readings; a withheld axis is null
Samples ==
    { [alpha |-> Null, beta |-> Some(Deg(90)), gamma |-> Null],
      [alpha |-> Some(Deg(0)), beta |-> Null, gamma |-> Null],
      [alpha |-> Some(Deg(180)), beta |-> Some(Deg(0)), gamma |-> Some(Deg(0))],
      [alpha |-> Some(Deg(270)), beta |-> Some(Deg(90)), gamma |-> Null],
      [alpha |-> Some(Deg(0)), beta |-> Null, gamma |-> Some(Deg(30))] }
OrientXs == {0, 300}

NextOrient ==
    \/ \E c \in BOOLEAN : addItem(c)
    \/ \E k \in 1..MaxItems :
          handleStartPlay(k, "MAGIC_WINDOW", FALSE, "SENSOR", "FREE")
    \/ handleExit
    \/ handleEnterVR
    \/ handleExitVRMode
    \/ \E b \in BOOLEAN : setShowSettingsOverlay(b)
    \/ \E m \in {"SENSOR", "TOUCH"} : setControlMode(m)
    \/ keyCalibration
    \/ \E e \in Samples, l \in BOOLEAN :
          handleOrientation(e.alpha, e.beta, e.gamma, l)
    \/ \E cx \in OrientXs : onPointerDown(cx, 0, FALSE)
    \/ \E cx \in OrientXs : onPointerMove(cx, 0, TRUE)
    \/ onPointerUp

SpecOrient == Init /\ [][NextOrient]_vars

\* --- one session in the headset: gaze and click activation of words.
\* The probe point lies inside the viewport, so elementFromPoint always
\* finds an element.
GazeTargets ==
    {OtherElement, CloseElement} \cup {WordElement(i) : i \in 1..Len(CueWords)}

Translations == {"ok"}

Next ==
    \/ \E c \in BOOLEAN : addItem(c)
    \/ \E k \in 1..MaxItems :
          handleStartPlay(k, "MAGIC_WINDOW", FALSE, "SENSOR", "FREE")
    \/ handleEnterVR
    \/ onPointerDown(0, 0, FALSE)
    \/ onPointerUp
    \/ onCloseDefinition
    \/ \E tr \in Translations : translateDone(1, tr)
    \/ \E e \in GazeTargets : moveProbe(e)
    \/ Tick

Spec == Init /\ [][Next]_vars

\* --- a session in game mode: the spawner with gaze and click scoring.  No
\* control of the library sets isGameMode; the session is started with a
\* PlayerConfig that has it set, as the type admits.
Loud == <<255, 255, 255, 255, 255>>
Quiet == <<0, 0, 0, 0, 0>>
Edge == <<240, 240, 240, 240, 240>>

NoteTargets ==
    {OtherElement} \cup {NoteElement(notes[k].id) : k \in 1..Len(notes)}

NextGame ==
    \/ addItem(TRUE)
    \/ \E k \in 1..MaxItems : handleStartPlay(k, "STEREO", TRUE, "SENSOR", "FREE")
    \/ handleExit
    \/ keyTogglePlay
    \/ frameCount < MaxFrames /\ updateGame(Loud, 0)
    \/ \E e \in NoteTargets : moveProbe(e)
    \/ onPointerUp
    \/ Tick

SpecGame == Init /\ [][NextGame]_vars

\* --- the spawner under every bass signal
Spectra == {Loud, Quiet, Edge}

NextSpawner ==
    \/ addItem(TRUE)
    \/ \E k \in 1..MaxItems :
          handleStartPlay(k, "MAGIC_WINDOW", TRUE, "SENSOR", "FREE")
    \/ handleExit
    \/ keyTogglePlay
    \/ \E bins \in Spectra : frameCount < MaxFrames /\ updateGame(bins, 0)

SpecSpawner == Init /\ [][NextSpawner]_vars

\* --- the life of the notes: a loud signal for as many frames as a note
\* takes from the spawn depth to the despawn depth, the lane drawn from two
\* of the four, notes clicked on the way, the media paused and resumed
Lanes == 0..3
SampleLanes == {0, 3}

NextNotes ==
    \/ addItem(TRUE)
    \/ \E k \in 1..MaxItems :
          handleStartPlay(k, "STEREO", TRUE, "SENSOR", "FREE")
    \/ keyTogglePlay
    \/ \E lane \in SampleLanes : updateGame(Loud, lane)
    \/ \E e \in NoteTargets : moveProbe(e)
    \/ onPointerUp

SpecNotes == Init /\ [][NextNotes]_vars

\* --- the eye views under every format, item type and eye
Formats == DOMAIN VideoFormat
Eyes == {"left", "right", "single"}

NextRender ==
    \/ \E f \in Formats, ty \in {"video", "audio"}, e \in Eyes :
          renderEyeView(f, ty, e)
    \/ textureEffect
    \/ textureEffectNoVideo
    \/ animate

SpecRender == Init /\ [][NextRender]_vars

\* --- import, clear and edits of the persisted state
Documents ==
    [kind : {"object"},
     libraryItems : {JUndefined, JNull, JRef(1), JRef(2)},
     activeProfile : {JUndefined, JNull, JRef(1)},
     gamepadMapping : {JUndefined, JNum(0), JRef(1)}]
    \cup [kind : {"null", "invalid"}, libraryItems : {JUndefined},
          activeProfile : {JUndefined}, gamepadMapping : {JUndefined}]

NextImport ==
    \/ \E c \in BOOLEAN : addItem(c)
    \/ \E doc \in Documents : handleImport(doc)
    \/ handleClearData
    \/ \E k \in 1..3 : setActiveProfile(k)
    \/ onResetMapping

SpecImport == Init /\ [][NextImport]_vars

\* --- the settings sidebar with the export: the library, the profile and
\* the mapping change, the state is exported, and the exported file or
\* another document is imported
ExportDocuments ==
    { [kind |-> "object", libraryItems |-> JRef(2),
       activeProfile |-> JUndefined, gamepadMapping |-> JRef(1)] }

NextExport ==
    \/ \E c \in BOOLEAN : addItem(c)
    \/ handleExport
    \/ exportFile # Null /\ handleImport(Val(exportFile).text)
    \/ \E doc \in ExportDocuments : handleImport(doc)
    \/ handleClearData
    \/ onProfileSetting("ipdOffset", -50)
    \/ onUpdateMapping("CLICK", 3)
    \/ onResetMapping

SpecExport == Init /\ [][NextExport]_vars

\* --- one session in the headset with every kind of target under the probe
\* point: the recenter control, the notes of the spawner, a word token
ProbeTargets ==
    {OtherElement, RecenterElement, WordElement(2)}
        \cup {NoteElement(notes[k].id) : k \in 1..Len(notes)}

NextProbe ==
    \/ addItem(TRUE)
    \/ \E k \in 1..MaxItems, g \in BOOLEAN :
          handleStartPlay(k, "STEREO", g, "SENSOR", "FREE")
    \/ frameCount < MaxFrames /\ updateGame(Loud, 0)
    \/ \E e \in ProbeTargets : moveProbe(e)
    \/ onPointerUp
    \/ \E tr \in Translations : translateDone(1, tr)
    \/ Tick

SpecProbe == Init /\ [][NextProbe]_vars

\* --- one session on a touch screen: taps, drags split over several moves,
\* scrubs of the progress bar, the drag axis switched in the settings popup.
\* One pointer: it goes down, moves and comes up in turn, and a move reports
\* a pressed button exactly while it is down; the popup is used between two
\* gestures.
PointerYs == {0, 4, 8, 300}

NextPointer ==
    \/ addItem(TRUE)
    \/ \E k \in 1..MaxItems :
          handleStartPlay(k, "MAGIC_WINDOW", FALSE, "TOUCH", "FREE")
    \/ \E b \in BOOLEAN : setShowSettingsOverlay(b)
    \/ \E a \in {"FREE", "HORIZONTAL"} : pointerDownAt = Null /\ setDragAxis(a)
    \/ \E onBar \in BOOLEAN : pointerDownAt = Null /\ onPointerDown(0, 0, onBar)
    \/ \E cy \in PointerYs : onPointerMove(0, cy, pointerDownAt # Null)
    \/ pointerDownAt # Null /\ onPointerUp

SpecPointer == Init /\ [][NextPointer]_vars

\* --- one session in the headset, every lookup ending in every way; the
\* promise of a lookup settles at last (the request returns or fails)
LookupTargets == {OtherElement, CloseElement, WordElement(2)}

NextLookup ==
    \/ addItem(TRUE)
    \/ \E k \in 1..MaxItems :
          handleStartPlay(k, "STEREO", FALSE, "SENSOR", "FREE")
    \/ \E e \in LookupTargets : moveProbe(e)
    \/ onPointerUp
    \/ \E o \in LookupOutcomes : lookupSettles(o)
    \/ Tick

SpecLookup ==
    /\ Init
    /\ [][NextLookup]_vars
    /\ WF_vars(\E o \in LookupOutcomes : lookupSettles(o))

\* --- one session in the headset with the calibration mode entered and
\* left by clicks, a word, the recenter control or the first note of the
\* spawner under the probe point
NextCalibration ==
    \/ addItem(TRUE)
    \/ \E k \in 1..MaxItems, g \in BOOLEAN :
          handleStartPlay(k, "STEREO", g, "SENSOR", "FREE")
    \/ frameCount < LoopFrames /\ updateGame(Loud, 0)
    \/ \E e \in ProbeTargets : moveProbe(e)
    \/ onPointerUp
    \/ \E tr \in Translations : translateDone(1, tr)
    \/ Tick

SpecCalibration == Init /\ [][NextCalibration]_vars

\* --- sessions in the headset begun and ended (Escape) while words are
\* gazed at and clicked and lookups are pending
NextSessions ==
    \/ addItem(TRUE)
    \/ \E k \in 1..MaxItems :
          handleStartPlay(k, "STEREO", FALSE, "SENSOR", "FREE")
    \/ handleExit
    \/ \E e \in LookupTargets : moveProbe(e)
    \/ onPointerUp
    \/ \E tr \in Translations : translateDone(1, tr)
    \/ Tick

SpecSessions == Init /\ [][NextSessions]_vars

\* --- sessions begun and ended with the four loops running: the gaze
\* interval, the orientation listener, the frames of the spawner and of the
\* panoramic renderer
LoopSamples ==
    { [alpha |-> Some(Deg(270)), beta |-> Some(Deg(90)), gamma |-> Null] }

NextLoops ==
    \/ addItem(TRUE)
    \/ \E k \in 1..MaxItems :
          handleStartPlay(k, "MAGIC_WINDOW", TRUE, "SENSOR", "FREE")
    \/ handleExit
    \/ keyTogglePlay
    \/ \E f \in {"VR360_MONO", "MONO_2D"} :
          view = "player" /\ renderEyeView(f, "video", "single")
    \/ view = "player" /\ textureEffect
    \/ animate
    \/ frameCount < LoopFrames /\ updateGame(Loud, 0)
    \/ \E e \in LoopSamples : handleOrientation(e.alpha, e.beta, e.gamma, FALSE)
    \/ Tick

SpecLoops == Init /\ [][NextLoops]_vars

\* ------------------------------------------------------------------------
\* Properties
\* ------------------------------------------------------------------------
\* C1: in the state confirmRecenter leaves behind, before any further event,
\* the applied rotation (headRotation in SENSOR mode, touchRotation in TOUCH
\* mode) is pitch 0 / yaw 0.
C1_RecenterGivesZero ==
    lastOp.fired = "recenter" => activeRotation = ZeroRotation

\* C2: every headRotation has its yaw in the half-open range (-180, 180] and
\* its pitch in [-80, 80].
C2_YawHalfOpenPitchClamped ==
    /\ headRotation.y > 0 - Deg(180)
    /\ headRotation.y <= Deg(180)
    /\ headRotation.x >= 0 - Deg(SENSOR_PITCH_LIMIT)
    /\ headRotation.x <= Deg(SENSOR_PITCH_LIMIT)

\* --- the dwell loop
\* a gaze tick has just run that found the element of the tick before it
SameRunTick ==
    /\ lastOp'.name = "checkGaze"
    /\ now' # now
    /\ ep'.start = ep.start

\* a gaze tick has just run that found another element than the tick before
RunEndsTick ==
    /\ lastOp'.name = "checkGaze"
    /\ now' # now
    /\ ep'.start # ep.start

C4_TargetChangeResets ==
    (lastOp.name = "checkGaze" /\ ep.start = now) =>
        /\ dwellProgress = 0
        /\ IsWordEl(ep.el) => lastHoverTimeRef = now

\* C5 (as stated): from one tick to the next on the same word target, with
\* no activation firing, dwellProgress does not decrease.
C5_ProgressMonotone ==
    [][(SameRunTick /\ ep.el.kind = "word" /\ lastOp'.fired # "translate")
          => dwellProgress' >= ep.progress]_vars

\* C5 (amended): from one tick to the next on the same word target, with no
\* activation firing and no closeDefinition between the two ticks,
\* dwellProgress does not decrease.
C5_ProgressMonotoneUnclosed ==
    [][(SameRunTick /\ ep.el.kind = "word" /\ lastOp'.fired # "translate"
          /\ ep.closed # "now")
          => dwellProgress' >= ep.progress]_vars

C5_Witness ==
    /\ lastOp = Op("checkGaze")
    /\ ep.el.kind = "word"
    /\ ep.closed = "no"
    /\ now - ep.start >= 2 * TickGap
    /\ dwellProgress = ep.progress
    /\ dwellProgress >= 2 * TickGap

\* C10: a word activation (gaze or click) starts a lookup only while
\* isTranslating is false and no definition is displayed.
C10_ActivationGuard ==
    [][lastOp'.fired = "translate" => (~isTranslating /\ definition = Null)]_vars

\* --- game notes
\* C6: within a session every note id is scored at most once, whatever the
\* interleaving of gaze ticks and clicks that hit it: the combo counts the
\* distinct consumed ids.
C6_ScoredOncePerNote ==
    /\ \A n \in NoteIds : scored[n] <= 1
    /\ gameStats.combo = Cardinality(hitObjects)
    /\ \A n \in NoteIds : scored[n] = 1 <=> n \in hitObjects

C6_Witness ==
    \E n \in NoteIds :
        /\ scored[n] = 1
        /\ elementFromPoint = NoteElement(n)
        /\ lastOp \in {Op("checkGaze"), Op("handleScreenClick")}
        /\ gameStats.combo = 1

SideBySide == {"STEREO_SBS", "VR180_SBS", "VR360_SBS"}
TopBottom == {"STEREO_TB", "VR180_TB", "VR360_TB"}
Panoramic == {"VR180_SBS", "VR180_TB", "VR180_MONO",
              "VR360_SBS", "VR360_TB", "VR360_MONO"}

ExpectedWindow(format, eye) ==
    [u0 |-> IF format \in SideBySide /\ eye = "right" THEN 50 ELSE 0,
     u1 |-> IF format \in SideBySide /\ eye # "right" THEN 50 ELSE 100,
     v0 |-> IF format \in TopBottom /\ eye # "right" THEN 50 ELSE 0,
     v1 |-> IF format \in TopBottom /\ eye = "right" THEN 50 ELSE 100]

\* C8: for every video format and eye the window shown is the left half
\* (side-by-side) or the upper half (top-bottom) for the left and the single
\* eye, the other half for the right eye, and the full picture for a mono
\* format, on the panoramic path (once its effect has run) and on the flat
\* path alike.
C8_TextureWindows ==
    (eyeProps # Null /\ Val(eyeProps).type = "video") =>
        LET pr == Val(eyeProps) IN
        IF pr.format \in Panoramic
        THEN lastOp.name = "textureEffect" =>
                WindowOfTexture(Val(Val(eyeOut).texture))
                    = ExpectedWindow(pr.format, pr.eye)
        ELSE WindowOfStyle(Val(eyeOut).style)
                 = ExpectedWindow(pr.format, pr.eye)

C8_Witness ==
    /\ eyeProps = Some([format |-> "STEREO_TB", type |-> "video", eye |-> "right"])
    /\ WindowOfStyle(Val(eyeOut).style) = [u0 |-> 0, u1 |-> 100, v0 |-> 0, v1 |-> 50]
    /\ WindowOfTexture(TextureMapping("VR180_TB", "right"))
         = WindowOfStyle(Val(eyeOut).style)

\* --- import
KeyPresent(j) == j.t # "undefined"

\* an import of an object document has just run
ImportRan == lastOp'.name = "handleImport" /\ Val(importDoc').kind = "object"

\* the state of a key is a list or a record: it equals no null and no number
ReplacedIfPresent(key, j, before, after) ==
    IF KeyPresent(j)
    THEN Truthy(j) /\ after = ImportValues[key][j.n]
    ELSE after = before

ReplacedIfTruthy(key, j, before, after) ==
    IF Truthy(j) THEN after = ImportValues[key][j.n] ELSE after = before

\* C9 (as stated): handleImportData replaces the state of exactly the keys
\* present in the document and leaves the state of every absent key.
C9_ReplacesPresentKeys ==
    [][ImportRan =>
        LET d == Val(importDoc') IN
        /\ ReplacedIfPresent("libraryItems", d.libraryItems,
                             libraryItems, libraryItems')
        /\ ReplacedIfPresent("activeProfile", d.activeProfile,
                             activeProfile, activeProfile')
        /\ ReplacedIfPresent("gamepadMapping", d.gamepadMapping,
                             gamepadMapping, gamepadMapping')]_vars

\* C9 (amended): handleImportData replaces the state of exactly the keys
\* present in the document with a truthy value (an array or an object) and
\* leaves the state of every other key, one that is absent or holds null or
\* 0; a document holding only the profile leaves the library items and the
\* button mapping.
C9_ReplacesTruthyKeys ==
    [][ImportRan =>
        LET d == Val(importDoc') IN
        /\ ReplacedIfTruthy("libraryItems", d.libraryItems,
                            libraryItems, libraryItems')
        /\ ReplacedIfTruthy("activeProfile", d.activeProfile,
                            activeProfile, activeProfile')
        /\ ReplacedIfTruthy("gamepadMapping", d.gamepadMapping,
                            gamepadMapping, gamepadMapping')]_vars

C9_Witness ==
    /\ lastOp.name = "handleImport"
    /\ importAlert = "dataImported"
    /\ importDoc = Some([kind |-> "object", libraryItems |-> JUndefined,
                         activeProfile |-> JRef(1),
                         gamepadMapping |-> JUndefined])
    /\ activeProfile = PRESETS[2]
    /\ Len(libraryItems) = 1
    /\ libraryItems # ImportedItems
    /\ gamepadMapping = ImportedMapping

Classify(el) ==
    IF el.kind = "action" THEN "action"
    ELSE IF el.kind = "note" /\ isGameMode THEN "note"
    ELSE IF IsWordEl(el) THEN "word"
    ELSE "none"

\* what a probe of a target of each class may do
PathsOf(class) ==
    CASE class = "action" -> {"calibrate"}
      [] class = "note" -> {"score", "none"}
      [] class = "word" -> {"translate", "close", "none"}
      [] OTHER -> {"togglePlay", "none"}

\* C12: every probe, the click and the gaze tick alike, takes the one path
\* of the class of the element at the probe point, in the order
\* action-trigger > game note > word token > none; the gaze tick recognises
\* the recenter control: the tick that finds its gaze resting on it for
\* DWELL_TIME_MS activates it.
C12_ClassificationOrder ==
    [][/\ (lastOp'.name = "handleScreenClick" /\ ~isCalibrationMode) =>
             lastOp'.fired \in PathsOf(Classify(elementFromPoint))
       /\ lastOp'.name = "checkGaze" =>
             IF Classify(elementFromPoint) = "action"
             THEN (now' - ep'.start >= DWELL_TIME_MS) =>
                      lastOp'.fired = "calibrate"
             ELSE lastOp'.fired \in PathsOf(Classify(elementFromPoint))]_vars

\* --- pointer gestures
\* C13: a pointer-up runs the click activation only if the pointer lies no
\* more than DRAG_THRESHOLD_PX from where it went down, on both axes, and
\* the gesture did not start on the progress bar, however the movement was
\* split across pointer-move events.
C13_ClickOnlyWithoutDrag ==
    [][(lastOp'.name = "handleScreenClick" /\ pointerDownAt # Null) =>
          /\ ~Val(pointerDownAt).onBar
          /\ Abs(lastPointer.x - Val(pointerDownAt).x) <= DRAG_THRESHOLD_PX
          /\ Abs(lastPointer.y - Val(pointerDownAt).y) <= DRAG_THRESHOLD_PX]_vars

\* C14: in touch mode, after any drag made while the drag axis is not FREE,
\* the pitch of touchRotation is 0.
C14_PitchZeroUnlessFree ==
    (lastOp = Fired("onPointerMove", "rotate", 0) /\ dragAxis # "FREE")
        => touchRotation.x = 0

\* C15: the pitch of touchRotation stays in the range of the sensor pitch,
\* [-80, 80] degrees.
C15_TouchPitchClampedAsSensor ==
    /\ touchRotation.x >= 0 - Deg(SENSOR_PITCH_LIMIT)
    /\ touchRotation.x <= Deg(SENSOR_PITCH_LIMIT)

\* --- failures
\* C16: a device-orientation sample whose alpha axis is null leaves
\* headRotation, the calibration base and the stored last raw sample
\* unchanged: the rotation stays at its last known value.
C16_NullAlphaIgnored ==
    [][(lastOp'.name = "handleOrientation" /\ lastOp'.fired = "ignored") =>
          UNCHANGED <<headRotation, baseRotation, lastRawOrientation>>]_vars

C16_Witness ==
    /\ lastOp = Fired("handleOrientation", "ignored", 0)
    /\ headRotation.y # 0
    /\ lastRawOrientation # Null
    /\ baseRotation # lastRawOrientation

\* C17: if the audio set-up of the spawner threw or never ran, the note set
\* stays empty for the whole session and no score is gained, while the
\* frame loop keeps running.
C17_NoAnalyserNoNotes ==
    audioInit \in {"threw", "noMedia"} =>
        /\ notes = <<>>
        /\ lastBeatFrame = 0
        /\ gameStats = ZeroStats
        /\ hitObjects = {}

C17_Witness ==
    /\ audioInit = "threw"
    /\ lastOp = Fired("updateGame", "none", MaxFrames)
    /\ beat.above
    /\ notes = <<>>
    /\ gameStats.score = 0

\* C18: importing a document that does not parse as JSON, or that parses to
\* null, raises the import-failed alert, never the success alert, and leaves
\* libraryItems, activeProfile and gamepadMapping unchanged.
C18_MalformedImportRejected ==
    [][(lastOp'.name = "handleImport"
          /\ Val(importDoc').kind \in {"null", "invalid"}) =>
          /\ importAlert' = "error"
          /\ UNCHANGED <<libraryItems, activeProfile, gamepadMapping>>]_vars

C18_Witness ==
    /\ lastOp.name = "handleImport"
    /\ Val(importDoc).kind = "null"
    /\ importAlert = "error"
    /\ libraryItems = ImportedItems
    /\ activeProfile = PRESETS[3]
    /\ gamepadMapping = ImportedMapping

\* C19: every word activation leaves the loading state once its lookup has
\* settled, whether with a result, an empty or unparseable response or a
\* failure: the step in which handleTranslate resumes clears isTranslating
\* and displays a definition of the requested word (the placeholder on
\* failure), and no lookup is left loading for ever.
C19_LookupLeavesLoading ==
    /\ [][lastOp'.name = "translateDone" =>
            /\ ~isTranslating'
            /\ definition' # Null
            /\ Val(definition').word = inflight[1]]_vars
    /\ isTranslating ~> (~isTranslating /\ definition # Null)

C19_Witness ==
    /\ lastOp.name = "translateDone"
    /\ ~isTranslating
    /\ definition = Some([word |-> <<"c","a","t">>, translation |-> "Error"])
    /\ inflight = <<>>

\* --- cancellation
\* the callbacks of the four loops
LoopCallbacks == {"checkGaze", "handleOrientation", "updateGame", "animate"}

\* C20: once the session has ended, the library shown again, the gaze
\* interval is cleared, the orientation listener removed and no
\* animation-frame request of the spawner or of the panoramic renderer is
\* pending, and no callback of the four loops runs.
C20_LoopsStopAtExit ==
    [][view = "library" =>
          /\ ~gazeTimer /\ ~orientListener
          /\ spawnerPending = {} /\ rendererPending = {}
          /\ lastOp'.name \notin LoopCallbacks]_vars

C20_Witness ==
    /\ lastOp.name = "handleExit"
    /\ view = "library"
    /\ isGameMode /\ isPlaying
    /\ frameCount > COOLDOWN_FRAMES
    /\ notes # <<>>
    /\ frameId # 0
    /\ lastRawOrientation # Null
    /\ now > CHECK_INTERVAL_MS
    /\ spawnerPending = {} /\ rendererPending = {}

\* --- playback and configuration
\* C21: playback is paused for as long as a translation lookup is pending:
\* isTranslating implies that the media is paused and isPlaying is false.
C21_PausedWhileTranslating ==
    isTranslating => (paused /\ ~isPlaying)

\* C22: the control mode changes only in handleStartPlay (the configuration
\* of the session) and in the control-mode buttons of the settings popup.
C22_ControlModeExplicit ==
    [][controlMode' # controlMode =>
          lastOp'.name \in {"handleStartPlay", "setControlMode"}]_vars

C24_OneRendererNoLeak ==
    /\ Cardinality(LiveSetups(live)) <= 1
    /\ Cardinality(rendererPending) <= 1
    /\ RendererSetUp => (live = SetupResources(rendererRef)
                           /\ rendererPending = {frameId})
    /\ ~RendererSetUp => (live = {} /\ rendererPending = {})

C24_Witness ==
    /\ lastOp.name = "renderEyeView"
    /\ Val(eyeProps).format = "MONO_2D"
    /\ rendererRef # 0
    /\ frameId # 0
    /\ live = {}
    /\ rendererPending = {}

\* --- export and import
\* C25: importing the document an export wrote restores the libraryItems,
\* the activeProfile and the gamepadMapping the export was made from,
\* whatever the three were changed to in between.
C25_ExportImportRoundTrip ==
    [][(/\ lastOp'.name = "handleImport"
        /\ exportFile # Null
        /\ importDoc' = Some(Val(exportFile).text)) =>
            exportData' = Val(exportFile).data]_vars

\* the file exported with an empty library, a profile set by a slider and a
\* remapped button has been imported
C25_Witness ==
    /\ lastOp.name = "handleImport"
    /\ importAlert = "dataImported"
    /\ exportFile # Null
    /\ importDoc = Some(Val(exportFile).text)
    /\ Val(exportFile).data.libraryItems = <<>>
    /\ Val(exportFile).data.activeProfile.ipdOffset = -50
    /\ Val(exportFile).data.gamepadMapping.CLICK = 3
    /\ exportData = Val(exportFile).data

FrameNotes ==
    notes \o (IF lastOp'.fired = "spawn"
              THEN <<[id |-> frameCount', z |-> SPAWN_Z]>>
              ELSE <<>>)

\* C27: after a playing frame the published notes are exactly the notes not
\* marked hit, not in the consumed set and below the despawn depth, each
\* advanced by SPEED in that frame and in one of the four lanes; a consumed
\* note is absent from what the next playing frame publishes.
C27_PublishedNotes ==
    [][(lastOp'.name = "updateGame" /\ lastOp'.fired # "idle") =>
        /\ \A k \in 1..Len(notes') :
              /\ ~notes'[k].isHit
              /\ notes'[k].id \notin hitObjects'
              /\ notes'[k].z < DESPAWN_Z
              /\ notes'[k].lane \in Lanes
              /\ \E j \in 1..Len(FrameNotes) :
                    /\ FrameNotes[j].id = notes'[k].id
                    /\ notes'[k].z = FrameNotes[j].z + SPEED
        /\ \A j \in 1..Len(FrameNotes) :
              (/\ FrameNotes[j].id \notin hitObjects
               /\ FrameNotes[j].z + SPEED < DESPAWN_Z) =>
                  \E k \in 1..Len(notes') : notes'[k].id = FrameNotes[j].id]_vars

\* a frame has just dropped the first note at the despawn depth and
\* published a later one, after a note was consumed
C27_Witness ==
    /\ lastOp.name = "updateGame"
    /\ lastOp.fired # "idle"
    /\ hitObjects # {}
    /\ notes # <<>>
    /\ \A k \in 1..Len(notes) : notes[k].id > 16 /\ notes[k].id \notin hitObjects
    /\ 16 \notin hitObjects
    /\ frameCount = 59

\* --- range of the dwell progress
\* C28: the dwell progress always lies between 0 and 1 (0 and DWELL_TIME_MS
\* as a numerator), and while no word is hovered it is exactly 0.
C28_ProgressInRange ==
    /\ dwellProgress \in 0..DWELL_TIME_MS
    /\ hoveredWord = Null => dwellProgress = 0

\* the definition has been closed while the dwell on another word was under
\* way
C28_Witness ==
    /\ lastOp.name = "onCloseDefinition"
    /\ ep.progress > 0
    /\ hoveredWord = Null
    /\ dwellProgress = 0

\* --- the calibration base of a session
\* C29: the first valid sensor sample of a session is its own base and
\* gives the rotation (0, 0), also when a recenter was confirmed in the
\* session before that sample: no base of an earlier session is used.
C29_FirstSampleIsBase ==
    [][(/\ lastOp'.name = "handleOrientation"
        /\ lastOp'.fired = "sample"
        /\ ~sampled) =>
            /\ baseRotation' = lastRawOrientation'
            /\ headRotation' = ZeroRotation]_vars

\* --- frames while the media is paused
\* C30: while the media is not playing a frame of the spawner changes
\* nothing: the frame counter, the frame of the last spawn, the notes with
\* their depths and the published note set stay as they are, and no note is
\* spawned.
C30_IdleFrameChangesNothing ==
    [][(lastOp'.name = "updateGame" /\ ~isPlaying) =>
            /\ frameCount' = frameCount
            /\ lastBeatFrame' = lastBeatFrame
            /\ notes' = notes
            /\ lastOp'.fired # "spawn"]_vars

\* a frame has run over a live note with the media paused and the bass loud
C30_Witness ==
    /\ lastOp = Fired("updateGame", "idle", 0)
    /\ ~isPlaying
    /\ audioInit = "ok"
    /\ notes # <<>>
    /\ frameCount - lastBeatFrame > COOLDOWN_FRAMES

\* --- the gaze loop in the headset
\* C31: whenever the player is shown in STEREO mode outside the calibration
\* mode, the gaze loop is running.
C31_GazeLoopRunsInStereo ==
    (view = "player" /\ mode = "STEREO" /\ ~isCalibrationMode) => gazeTimer

\* --- the dwell across a suspension of the gaze loop
\* C32: time that passed while the gaze loop was suspended (calibration
\* mode, settings popup) does not count towards a dwell: the first tick
\* after the loop resumes starts no lookup.
C32_NoFireOnResume ==
    [][(lastOp'.name = "checkGaze" /\ lastOp'.fired = "translate") =>
            ~ep.suspended]_vars

\* --- the lookup state across sessions
\* C33: every session starts with no definition shown, no lookup pending
\* (no loading indicator) and the dwell state idle, so that a lookup left
\* pending by the session before cannot show anything in the new one.
C33_SessionStartsClean ==
    [][lastOp'.name = "handleStartPlay" =>
            /\ definition' = Null
            /\ ~isTranslating'
            /\ inflight' = <<>>
            /\ hoveredWord' = Null
            /\ dwellProgress' = 0]_vars

\* --- lookups in flight
\* C34: at most one lookup is in flight at any time, under every
\* interleaving of gaze ticks, clicks, closes of the definition and returns
\* of lookups, and the definition a returning lookup displays is that of the
\* word activated last.
C34_OneLookupInFlight ==
    [][/\ Len(inflight') <= 1
       /\ lastOp'.name = "translateDone" =>
             (/\ Val(definition').word = inflight[Len(inflight)]
              /\ inflight' = <<>>)]_vars

\* the lookup an activation of the cue word started has returned and its
\* definition is on display
C34_Witness ==
    /\ lastOp.name = "translateDone"
    /\ definition # Null
    /\ Val(definition).word = dataWord(WordElement(2))
    /\ inflight = <<>>
    /\ ~isTranslating
    /\ ep.fires = 1

\* --- the game stats of a session
\* C35: within a session, after n scored notes combo = maxCombo = n = the
\* size of the consumed-id set and score = 100 n + 10 (0 + 1 + ... + (n-1));
\* the score never decreases and the combo is never reset before the next
\* session starts.
C35_StatsOfScoredNotes ==
    /\ [](LET n == Cardinality(hitObjects) IN
            /\ gameStats.combo = n
            /\ gameStats.maxCombo = n
            /\ gameStats.score = 100 * n + 5 * n * (n - 1))
    /\ [][lastOp'.name # "handleStartPlay" =>
            /\ gameStats'.score >= gameStats.score
            /\ gameStats'.combo >= gameStats.combo]_vars

\* a second note has just been scored
C35_Witness ==
    /\ lastOp.fired = "score"
    /\ Cardinality(hitObjects) = 2
    /\ gameStats = [score |-> 210, combo |-> 2, maxCombo |-> 2]

\* --- what a recenter changes
\* C36: confirmRecenter changes the rotation state of the active control
\* mode only: in SENSOR mode the base becomes the last raw sample and the
\* touch accumulator stays, in TOUCH mode the accumulator is zeroed and the
\* base and the head rotation stay, in SENSOR mode with no raw sample yet
\* no rotation state changes; in every case the calibration mode is left.
C36_RecenterFrame ==
    [][lastOp'.fired = "recenter" =>
        /\ ~isCalibrationMode'
        /\ headRotation' = headRotation
        /\ controlMode = "SENSOR" =>
              /\ touchRotation' = touchRotation
              /\ baseRotation' = IF lastRawOrientation # Null
                                 THEN lastRawOrientation ELSE baseRotation
        /\ controlMode = "TOUCH" =>
              /\ baseRotation' = baseRotation
              /\ touchRotation' = ZeroRotation]_vars

\* a recenter in SENSOR mode has taken a sample as the base and left a
\* touch accumulator that a drag in TOUCH mode had turned
C36_Witness ==
    /\ lastOp.fired = "recenter"
    /\ controlMode = "SENSOR"
    /\ touchRotation # ZeroRotation
    /\ baseRotation # Null
    /\ baseRotation = lastRawOrientation
    /\ headRotation # ZeroRotation
    /\ ~isCalibrationMode

====
